---------------------------- MODULE Spec2Model ----------------------------
(***************************************************************************)
(* A model of the data-model layer of edu-mail-builder (app/models.py):    *)
(* the six persisted tables, their Create / Update validation shapes, the  *)
(* foreign keys and the relationship cascades, and the transactional       *)
(* Create / Update / Delete operations that run against them.              *)
(*                                                                         *)
(* Representation.                                                         *)
(*   - A string is a TLA+ string, so max_length is a real Len test.        *)
(*   - An Optional[X] value is None (<<>>) or Some(x) (<<x>>).             *)
(*   - A JSON document (Dict[str, Any]) is a set of <<key, value>> pairs,  *)
(*     one pair per key; {} is EmptyDoc.                                   *)
(*   - A raw input is a record holding exactly the keys the client sent;   *)
(*     an omitted key is absent from its DOMAIN.                           *)
(*   - datetime.utcnow() is the single symbolic instant UtcNow.            *)
(*   - Decimal("0.7") is the fixed-point pair [digits |-> 7, exp |-> -1].  *)
(***************************************************************************)
EXTENDS Integers, Sequences, FiniteSets, TLC

VARIABLES db, seq, last

vars == <<db, seq, last>>

-----------------------------------------------------------------------------
(* Values *)

None == <<>>

Some(v) == <<v>>

EmptyDoc == {}

Keys(doc) == { kv[1] : kv \in doc }

UtcNow == "utcnow()"

Decimal(d, e) == [digits |-> d, exp |-> e]

-----------------------------------------------------------------------------
(* Enums *)

TemplateType ==
    { "course_reminder", "course_starts_today", "course_welcome",
      "course_completion", "assignment_due", "grade_notification" }

EmailStatus == { "draft", "published", "archived" }

ContentBlockType ==
    { "text", "image", "button", "divider", "spacer", "ai_generated" }

-----------------------------------------------------------------------------
(* Field declarations: the type of a field, and Field(...)'s default. *)

StrT(max) == [type |-> "str", max |-> max]

EnumT(members) == [type |-> "enum", members |-> members]

IntT == [type |-> "int"]

BoolT == [type |-> "bool"]

DateT == [type |-> "datetime"]

DecimalT == [type |-> "Decimal"]

JsonT == [type |-> "json"]

Opt(t) == [type |-> "optional", of |-> t]

ForeignKey(t, table) == t @@ [fk |-> table]

Required(t) == t @@ [required |-> TRUE]

Default(t, d) == t @@ [required |-> FALSE, default |-> d]

-----------------------------------------------------------------------------
(* Persistent models (table=True): one column per field.  A column is      *)
(* nullable exactly when its type is Optional; a column left out of the    *)
(* constructor takes its default.                                          *)

Course ==
    [ id          |-> Default(Opt(IntT), None),
      name        |-> Required(StrT(200)),
      description |-> Default(StrT(1000), ""),
      instructor  |-> Required(StrT(100)),
      start_date  |-> Default(Opt(DateT), None),
      end_date    |-> Default(Opt(DateT), None),
      created_at  |-> Default(DateT, UtcNow) ]

EmailTemplate ==
    [ id            |-> Default(Opt(IntT), None),
      name          |-> Required(StrT(200)),
      description   |-> Default(StrT(500), ""),
      template_type |-> Default(EnumT(TemplateType), "course_reminder"),
      status        |-> Default(EnumT(EmailStatus), "draft"),
      subject_line  |-> Required(StrT(200)),
      preview_text  |-> Default(StrT(150), ""),
      layout_config |-> Default(JsonT, EmptyDoc),
      course_id     |-> Default(ForeignKey(Opt(IntT), "courses"), None),
      created_at    |-> Default(DateT, UtcNow),
      updated_at    |-> Default(DateT, UtcNow),
      published_at  |-> Default(Opt(DateT), None) ]

ContentBlock ==
    [ id               |-> Default(Opt(IntT), None),
      template_id      |-> Required(ForeignKey(IntT, "email_templates")),
      block_type       |-> Default(EnumT(ContentBlockType), "text"),
      order_index      |-> Default(IntT, 0),
      content          |-> Default(JsonT, EmptyDoc),
      style_config     |-> Default(JsonT, EmptyDoc),
      ai_generated     |-> Default(BoolT, FALSE),
      ai_generation_id |-> Default(ForeignKey(Opt(IntT), "ai_generations"), None),
      created_at       |-> Default(DateT, UtcNow),
      updated_at       |-> Default(DateT, UtcNow) ]

AIGeneration ==
    [ id                |-> Default(Opt(IntT), None),
      template_id       |-> Required(ForeignKey(IntT, "email_templates")),
      prompt            |-> Required(StrT(1000)),
      model_used        |-> Required(StrT(50)),
      temperature       |-> Default(DecimalT, Decimal(7, -1)),
      generated_content |-> Default(JsonT, EmptyDoc),
      success           |-> Default(BoolT, TRUE),
      error_message     |-> Default(Opt(StrT(500)), None),
      created_at        |-> Default(DateT, UtcNow) ]

MediaAsset ==
    [ id                |-> Default(Opt(IntT), None),
      filename          |-> Required(StrT(255)),
      original_filename |-> Required(StrT(255)),
      file_path         |-> Required(StrT(500)),
      file_size         |-> Default(IntT, 0),
      mime_type         |-> Required(StrT(100)),
      width             |-> Default(Opt(IntT), None),
      height            |-> Default(Opt(IntT), None),
      alt_text          |-> Default(StrT(200), ""),
      usage_count       |-> Default(IntT, 0),
      created_at        |-> Default(DateT, UtcNow) ]

LayoutPreset ==
    [ id            |-> Default(Opt(IntT), None),
      name          |-> Required(StrT(100)),
      description   |-> Default(StrT(300), ""),
      layout_config |-> Default(JsonT, EmptyDoc),
      template_type |-> Default(Opt(EnumT(TemplateType)), None),
      is_default    |-> Default(BoolT, FALSE),
      usage_count   |-> Default(IntT, 0),
      created_at    |-> Default(DateT, UtcNow) ]

(* __tablename__ -> model *)
Tables ==
    [ courses         |-> Course,
      email_templates |-> EmailTemplate,
      content_blocks  |-> ContentBlock,
      ai_generations  |-> AIGeneration,
      media_assets    |-> MediaAsset,
      layout_presets  |-> LayoutPreset ]

TableNames == DOMAIN Tables

-----------------------------------------------------------------------------
(* Non-persistent schemas (table=False): validated on construction. *)

CourseCreate ==
    [ name        |-> Required(StrT(200)),
      description |-> Default(StrT(1000), ""),
      instructor  |-> Required(StrT(100)),
      start_date  |-> Default(Opt(DateT), None),
      end_date    |-> Default(Opt(DateT), None) ]

CourseUpdate ==
    [ name        |-> Default(Opt(StrT(200)), None),
      description |-> Default(Opt(StrT(1000)), None),
      instructor  |-> Default(Opt(StrT(100)), None),
      start_date  |-> Default(Opt(DateT), None),
      end_date    |-> Default(Opt(DateT), None) ]

EmailTemplateCreate ==
    [ name          |-> Required(StrT(200)),
      description   |-> Default(StrT(500), ""),
      template_type |-> Default(EnumT(TemplateType), "course_reminder"),
      subject_line  |-> Required(StrT(200)),
      preview_text  |-> Default(StrT(150), ""),
      layout_config |-> Default(JsonT, EmptyDoc),
      course_id     |-> Default(Opt(IntT), None) ]

EmailTemplateUpdate ==
    [ name          |-> Default(Opt(StrT(200)), None),
      description   |-> Default(Opt(StrT(500)), None),
      template_type |-> Default(Opt(EnumT(TemplateType)), None),
      status        |-> Default(Opt(EnumT(EmailStatus)), None),
      subject_line  |-> Default(Opt(StrT(200)), None),
      preview_text  |-> Default(Opt(StrT(150)), None),
      layout_config |-> Default(Opt(JsonT), None),
      course_id     |-> Default(Opt(IntT), None) ]

ContentBlockCreate ==
    [ template_id  |-> Required(IntT),
      block_type   |-> Default(EnumT(ContentBlockType), "text"),
      order_index  |-> Default(IntT, 0),
      content      |-> Default(JsonT, EmptyDoc),
      style_config |-> Default(JsonT, EmptyDoc) ]

(* Mutant: the update schema also declares the block's parent and origin. *)
ContentBlockUpdateReparenting ==
    [ block_type       |-> Default(Opt(EnumT(ContentBlockType)), None),
      order_index      |-> Default(Opt(IntT), None),
      content          |-> Default(Opt(JsonT), None),
      style_config     |-> Default(Opt(JsonT), None),
      template_id      |-> Default(Opt(IntT), None),
      ai_generated     |-> Default(Opt(BoolT), None),
      ai_generation_id |-> Default(Opt(IntT), None) ]

ContentBlockUpdate ==
    [ block_type   |-> Default(Opt(EnumT(ContentBlockType)), None),
      order_index  |-> Default(Opt(IntT), None),
      content      |-> Default(Opt(JsonT), None),
      style_config |-> Default(Opt(JsonT), None) ]

AIGenerationRequest ==
    [ template_id  |-> Required(IntT),
      prompt       |-> Required(StrT(1000)),
      model_used   |-> Default(StrT(50), "gpt-3.5-turbo"),
      temperature  |-> Default(DecimalT, Decimal(7, -1)),
      content_type |-> Default(EnumT(ContentBlockType), "ai_generated") ]

MediaAssetCreate ==
    [ filename          |-> Required(StrT(255)),
      original_filename |-> Required(StrT(255)),
      file_path         |-> Required(StrT(500)),
      file_size         |-> Default(IntT, 0),
      mime_type         |-> Required(StrT(100)),
      width             |-> Default(Opt(IntT), None),
      height            |-> Default(Opt(IntT), None),
      alt_text          |-> Default(StrT(200), "") ]

LayoutPresetCreate ==
    [ name          |-> Required(StrT(100)),
      description   |-> Default(StrT(300), ""),
      layout_config |-> Default(JsonT, EmptyDoc),
      template_type |-> Default(Opt(EnumT(TemplateType)), None),
      is_default    |-> Default(BoolT, FALSE) ]

-----------------------------------------------------------------------------
(* Relationships.  cascade_delete = TRUE deletes the children with the     *)
(* parent; a relationship without it detaches them (the child's foreign    *)
(* key is set to NULL) when the parent is deleted.                         *)

Relationships ==
    { [ parent |-> "courses", child |-> "email_templates",
        fk |-> "course_id", cascade_delete |-> FALSE ],
      [ parent |-> "email_templates", child |-> "content_blocks",
        fk |-> "template_id", cascade_delete |-> TRUE ],
      [ parent |-> "email_templates", child |-> "ai_generations",
        fk |-> "template_id", cascade_delete |-> TRUE ],
      [ parent |-> "ai_generations", child |-> "content_blocks",
        fk |-> "ai_generation_id", cascade_delete |-> FALSE ] }

-----------------------------------------------------------------------------
(* Validation of a raw input against a schema. *)

(* Mutant: max_length is not enforced. *)
RECURSIVE ValueOKNoLength(_, _)
ValueOKNoLength(t, v) ==
    CASE t.type = "enum"     -> v \in t.members
      [] t.type = "optional" -> v = None \/ ValueOKNoLength(t.of, v[1])
      [] OTHER               -> TRUE

(* Mutant: an enum field takes any string. *)
RECURSIVE ValueOKAnyEnum(_, _)
ValueOKAnyEnum(t, v) ==
    CASE t.type = "str"      -> Len(v) <= t.max
      [] t.type = "optional" -> v = None \/ ValueOKAnyEnum(t.of, v[1])
      [] OTHER               -> TRUE

RECURSIVE ValueOK(_, _)
ValueOK(t, v) ==
    CASE t.type = "str"      -> Len(v) <= t.max
      [] t.type = "enum"     -> v \in t.members
      [] t.type = "optional" -> v = None \/ ValueOK(t.of, v[1])
      [] OTHER               -> TRUE

Validate(schema, raw) ==
    /\ \A f \in DOMAIN schema : schema[f].required => f \in DOMAIN raw
    /\ \A f \in DOMAIN raw \cap DOMAIN schema : ValueOK(schema[f], raw[f])

(* Mutant: every declared field counts as set, given or defaulted. *)
FieldsSetAll(schema, raw) == DOMAIN schema

(* The fields the input set on the instance (model_fields_set): declared  *)
(* by the schema and carried by the input.  A field left at its default    *)
(* is not among them; a key the schema does not declare is ignored.        *)
FieldsSet(schema, raw) == DOMAIN raw \cap DOMAIN schema

(* Mutant: undeclared keys are kept on the instance (extra = "allow"). *)
ParseKeepingExtras(schema, raw) ==
    [ f \in DOMAIN schema \cup DOMAIN raw |->
        IF f \in DOMAIN raw THEN raw[f] ELSE schema[f].default ]

(* The validated instance: every declared field, defaults filled in. *)
Parse(schema, raw) ==
    [ f \in DOMAIN schema |->
        IF f \in DOMAIN raw THEN raw[f] ELSE schema[f].default ]

(* What an update carries: the instance's values for the fields that were *)
(* set (model_dump(exclude_unset=True)).                                   *)
Dump(schema, raw) ==
    LET instance == Parse(schema, raw)
    IN  [ f \in FieldsSet(schema, raw) |-> instance[f] ]

-----------------------------------------------------------------------------
(* Storage: rows, keys and constraints. *)

Nullable(col) == col.type \in { "optional", "json" }

(* Mutant: only the required columns are taken from the values. *)
NewRowDefaultsOnly(table, vals, id) ==
    [ c \in DOMAIN table |->
        IF c = "id" THEN id
        ELSE IF table[c].required THEN vals[c]
        ELSE table[c].default ]

(* The row a table model builds from the given values; the primary key is *)
(* assigned at insert.                                                     *)
NewRow(table, vals, id) ==
    [ c \in DOMAIN table |->
        IF c = "id" THEN id
        ELSE IF c \in DOMAIN vals THEN vals[c]
        ELSE table[c].default ]

Ref(col, v) == IF col.type = "optional" THEN v ELSE Some(v)

(* Mutant: the store does not enforce foreign keys. *)
ForeignKeysUnchecked(d, t, row) == TRUE

ForeignKeysOK(d, t, row) ==
    \A c \in DOMAIN Tables[t] :
        "fk" \in DOMAIN Tables[t][c] =>
            LET r == Ref(Tables[t][c], row[c])
            IN  r = None \/ r[1] \in DOMAIN d[Tables[t][c].fk]

NotNullOK(t, upd) ==
    \A c \in DOMAIN upd : Nullable(Tables[t][c]) \/ upd[c] # None

(* Mutant: a JSON column merges the new document into the stored one. *)
AssignMerging(col, old, v) ==
    IF col.type = "optional" THEN v
    ELSE IF col.type = "json"
         THEN v[1] \cup { kv \in old : kv[1] \notin Keys(v[1]) }
         ELSE v[1]

(* Assignment of an update's value to a column: the stored value is       *)
(* replaced by the new one (a JSON column holds one document).             *)
Assign(col, old, v) == IF col.type = "optional" THEN v ELSE v[1]

ApplyUpdate(t, row, upd) ==
    [ c \in DOMAIN row |->
        IF c \in DOMAIN upd THEN Assign(Tables[t][c], row[c], upd[c])
        ELSE row[c] ]

Put(d, t, id, row) ==
    [ d EXCEPT ![t] = [ i \in DOMAIN d[t] \cup {id} |->
                          IF i = id THEN row ELSE d[t][i] ] ]

Response(op, raw, result, id) ==
    [ op |-> op, input |-> raw, result |-> result, id |-> id ]

-----------------------------------------------------------------------------
(* Deletion through the session: the rows a delete takes with it, and the *)
(* rows it detaches.                                                       *)

Children(d, rel, ids) ==
    { i \in DOMAIN d[rel.child] :
        LET r == Ref(Tables[rel.child][rel.fk], d[rel.child][i][rel.fk])
        IN  r # None /\ r[1] \in ids }

RECURSIVE Doomed(_, _)
Doomed(d, gone) ==
    LET more == [ t \in TableNames |->
                    gone[t] \cup UNION { Children(d, rel, gone[rel.parent]) :
                        rel \in { r \in Relationships :
                                    r.cascade_delete /\ r.child = t } } ]
    IN  IF more = gone THEN gone ELSE Doomed(d, more)

Detach(t, row, gone) ==
    [ c \in DOMAIN row |->
        IF \E rel \in Relationships :
              /\ ~rel.cascade_delete
              /\ rel.child = t /\ rel.fk = c
              /\ row[c] # None /\ row[c][1] \in gone[rel.parent]
        THEN None
        ELSE row[c] ]

DeleteCascade(d, t, id) ==
    LET gone == Doomed(d, [ tt \in TableNames |->
                              IF tt = t THEN {id} ELSE {} ])
    IN  [ tt \in TableNames |->
            [ i \in DOMAIN d[tt] \ gone[tt] |-> Detach(tt, d[tt][i], gone) ] ]

-----------------------------------------------------------------------------
(* Operations.  Each is one transaction: validate the input against the   *)
(* operation's schema, then write, and commit or roll back as a whole.     *)

Operations ==
    [ CreateCourse        |-> [ table |-> "courses", schema |-> CourseCreate ],
      UpdateCourse        |-> [ table |-> "courses", schema |-> CourseUpdate ],
      CreateEmailTemplate |-> [ table |-> "email_templates",
                                schema |-> EmailTemplateCreate ],
      UpdateEmailTemplate |-> [ table |-> "email_templates",
                                schema |-> EmailTemplateUpdate ],
      CreateContentBlock  |-> [ table |-> "content_blocks",
                                schema |-> ContentBlockCreate ],
      UpdateContentBlock  |-> [ table |-> "content_blocks",
                                schema |-> ContentBlockUpdate ],
      RecordAIGeneration  |-> [ table |-> "ai_generations",
                                schema |-> AIGenerationRequest ],
      CreateMediaAsset    |-> [ table |-> "media_assets",
                                schema |-> MediaAssetCreate ],
      CreateLayoutPreset  |-> [ table |-> "layout_presets",
                                schema |-> LayoutPresetCreate ] ]

Create(op, raw, extra) ==
    LET t == Operations[op].table
        schema == Operations[op].schema
    IN  IF ~Validate(schema, raw)
        THEN /\ last' = Response(op, raw, "ValidationError", 0)
             /\ UNCHANGED <<db, seq>>
        ELSE LET row == NewRow(Tables[t], extra @@ Parse(schema, raw), seq[t])
             IN  IF ~ForeignKeysOK(db, t, row)
                 THEN /\ last' = Response(op, raw, "IntegrityError", 0)
                      /\ UNCHANGED <<db, seq>>
                 ELSE /\ db' = Put(db, t, seq[t], row)
                      /\ seq' = [seq EXCEPT ![t] = @ + 1]
                      /\ last' = Response(op, raw, "ok", seq[t])

Update(op, id, raw) ==
    LET t == Operations[op].table
        schema == Operations[op].schema
    IN  /\ id \in DOMAIN db[t]
        /\ UNCHANGED seq
        /\ IF ~Validate(schema, raw)
           THEN /\ last' = Response(op, raw, "ValidationError", id)
                /\ UNCHANGED db
           ELSE LET upd == Dump(schema, raw)
                    row == ApplyUpdate(t, db[t][id], upd)
                IN  IF ~NotNullOK(t, upd) \/ ~ForeignKeysOK(db, t, row)
                    THEN /\ last' = Response(op, raw, "IntegrityError", id)
                         /\ UNCHANGED db
                    ELSE /\ db' = Put(db, t, id, row)
                         /\ last' = Response(op, raw, "ok", id)

Delete(op, t, id) ==
    /\ id \in DOMAIN db[t]
    /\ db' = DeleteCascade(db, t, id)
    /\ last' = Response(op, <<>>, "ok", id)
    /\ UNCHANGED seq

CreateCourse(raw) == Create("CreateCourse", raw, <<>>)

UpdateCourse(id, raw) == Update("UpdateCourse", id, raw)

DeleteCourse(id) == Delete("DeleteCourse", "courses", id)

CreateEmailTemplate(raw) == Create("CreateEmailTemplate", raw, <<>>)

UpdateEmailTemplate(id, raw) == Update("UpdateEmailTemplate", id, raw)

DeleteEmailTemplate(id) == Delete("DeleteEmailTemplate", "email_templates", id)

CreateContentBlock(raw) == Create("CreateContentBlock", raw, <<>>)

UpdateContentBlock(id, raw) == Update("UpdateContentBlock", id, raw)

DeleteContentBlock(id) == Delete("DeleteContentBlock", "content_blocks", id)

(* An AI generation request, recorded with what the generation service    *)
(* answered.                                                               *)
RecordAIGeneration(raw, outcome) == Create("RecordAIGeneration", raw, outcome)

DeleteAIGeneration(id) == Delete("DeleteAIGeneration", "ai_generations", id)

(* block.ai_generation = generation: writes the block's ai_generation_id. *)
LinkAIGeneration(id, gen) ==
    /\ id \in DOMAIN db["content_blocks"]
    /\ UNCHANGED seq
    /\ LET row == [ db["content_blocks"][id] EXCEPT !.ai_generation_id = Some(gen) ]
       IN  IF ~ForeignKeysOK(db, "content_blocks", row)
           THEN /\ last' = Response("LinkAIGeneration", Some(gen), "IntegrityError", id)
                /\ UNCHANGED db
           ELSE /\ db' = Put(db, "content_blocks", id, row)
                /\ last' = Response("LinkAIGeneration", Some(gen), "ok", id)

CreateMediaAsset(raw) == Create("CreateMediaAsset", raw, <<>>)

CreateLayoutPreset(raw) == Create("CreateLayoutPreset", raw, <<>>)

-----------------------------------------------------------------------------
(* Inputs. *)

RECURSIVE Repeat(_, _)
Repeat(c, n) ==
    IF n = 0 THEN ""
    ELSE IF n % 2 = 0 THEN LET h == Repeat(c, n \div 2) IN h \o h
    ELSE c \o Repeat(c, n - 1)

Chars(n) == Repeat("x", n)

DocA == { <<"color", "red">>, <<"width", "600">> }

DocB == { <<"color", "blue">> }

(* The ids that reference a row of t, and one that references none. *)
RefIds(t) == DOMAIN db[t] \cup { seq[t] }

Inserted == seq["courses"] + seq["email_templates"] + seq["content_blocks"]
            + seq["ai_generations"] + seq["media_assets"] + seq["layout_presets"] - 6

(* One well-formed input per entity. *)
CourseSeed ==
    [ name |-> "Algebra", instructor |-> "Noether", start_date |-> Some(1) ]

EmailTemplateSeed ==
    [ name |-> "Welcome", subject_line |-> "Hello",
      template_type |-> "course_welcome", layout_config |-> DocA ]

ContentBlockSeeds ==
    { [ template_id |-> t, content |-> DocA, style_config |-> DocA ]
      : t \in RefIds("email_templates") }

(* The same, with an enum field outside its enum. *)
EmailTemplateOffEnum == [ EmailTemplateSeed EXCEPT !.template_type = "newsletter" ]

ContentBlockOffEnum ==
    { [ template_id |-> t, block_type |-> "video" ] : t \in RefIds("email_templates") }

AIGenerationSeeds ==
    { [ template_id |-> t, prompt |-> "Write a reminder" ]
      : t \in RefIds("email_templates") }

AIOutcomes ==
    { [ generated_content |-> DocA, success |-> TRUE, error_message |-> None ],
      [ generated_content |-> EmptyDoc, success |-> FALSE,
        error_message |-> Some("timeout") ] }

(* Create inputs: at and over the length limits, inside and outside the   *)
(* enums, with and without the optional fields, with undeclared keys.      *)
CourseCreateInputs ==
    { [ name |-> "Algebra", instructor |-> "Noether" ],
      [ name |-> Chars(200), description |-> "Groups", instructor |-> "Noether",
        start_date |-> Some(1), id |-> 9 ],
      [ name |-> Chars(201), instructor |-> "Noether" ],
      [ name |-> "Algebra" ] }

EmailTemplateCreateInputs ==
    { [ name |-> "Reminder", subject_line |-> "Reminder",
        template_type |-> "course_reminder" ],
      [ name |-> "Welcome", subject_line |-> "Hello", status |-> "published",
        id |-> 9 ],
      [ name |-> "Reminder", subject_line |-> "Reminder",
        description |-> Chars(501) ],
      [ name |-> "Reminder", subject_line |-> "Reminder",
        template_type |-> "newsletter" ] }
    \cup { [ name |-> "Welcome", subject_line |-> "Hello",
             template_type |-> "course_welcome", layout_config |-> DocA,
             course_id |-> Some(c) ] : c \in RefIds("courses") }

ContentBlockCreateInputs ==
    UNION { { [ template_id |-> t ],
              [ template_id |-> t, block_type |-> "button", order_index |-> 1,
                content |-> DocA, ai_generation_id |-> Some(1) ],
              [ template_id |-> t, block_type |-> "video" ] }
            : t \in RefIds("email_templates") }

AIGenerationRequestInputs ==
    UNION { { [ template_id |-> t, prompt |-> "Write a reminder" ],
              [ template_id |-> t, prompt |-> "Write a reminder",
                model_used |-> "gpt-4", temperature |-> Decimal(12, -1),
                content_type |-> "text" ],
              [ template_id |-> t, prompt |-> Chars(1001) ],
              [ template_id |-> t, prompt |-> "Write a reminder",
                content_type |-> "video" ] }
            : t \in RefIds("email_templates") }

MediaAssetCreateInputs ==
    { [ filename |-> "a.png", original_filename |-> "logo.png",
        file_path |-> "/m/a.png", mime_type |-> "image/png" ],
      [ filename |-> "a.png", original_filename |-> "logo.png",
        file_path |-> Chars(500), mime_type |-> "image/png",
        file_size |-> 2048, width |-> Some(600), usage_count |-> 5 ],
      [ filename |-> "a.png", original_filename |-> "logo.png",
        file_path |-> Chars(501), mime_type |-> "image/png" ] }

LayoutPresetCreateInputs ==
    { [ name |-> "Two columns" ],
      [ name |-> "Hero", layout_config |-> DocA,
        template_type |-> Some("course_welcome"), is_default |-> TRUE ],
      [ name |-> "Hero", template_type |-> Some("newsletter") ],
      [ name |-> Chars(101) ] }

(* Updates that also carry the keys of a block's parent and origin. *)
ContentBlockMoves ==
    { [ order_index |-> Some(2), template_id |-> Some(t), ai_generated |-> Some(TRUE),
        ai_generation_id |-> None ] : t \in RefIds("email_templates") }

(* Update inputs: one field, several fields, no field, an explicit null,  *)
(* values over the limits and outside the enums, undeclared keys.          *)
CourseUpdateInputs ==
    { [ name |-> Some("Analysis"), description |-> Some("Limits"),
        instructor |-> Some("Cauchy") ],
      [ end_date |-> Some(2) ],
      [ start_date |-> None ],
      [ instructor |-> Some(Chars(101)) ],
      <<>> }

EmailTemplateUpdateInputs ==
    { [ status |-> Some("published") ],
      [ layout_config |-> Some(DocB) ],
      [ course_id |-> None ],
      [ name |-> None ],
      [ status |-> Some("sent") ],
      [ template_type |-> Some("newsletter"), name |-> Some("Digest") ],
      [ preview_text |-> Some(Chars(151)) ] }
    \cup { [ course_id |-> Some(c) ] : c \in RefIds("courses") }

ContentBlockUpdateInputs ==
    { [ order_index |-> Some(2) ],
      [ content |-> Some(DocB) ],
      [ block_type |-> Some("image"), style_config |-> Some(DocB) ],
      [ block_type |-> Some("video") ],
      [ content |-> Some(EmptyDoc), template_id |-> Some(seq["email_templates"]),
        ai_generated |-> Some(TRUE), ai_generation_id |-> Some(1) ] }

-----------------------------------------------------------------------------
(* The specification of the store: rows are created from well-formed      *)
(* inputs, linked, re-parented, updated and deleted.                       *)

MaxInserts == 4

Init ==
    /\ db = [ t \in TableNames |-> <<>> ]
    /\ seq = [ t \in TableNames |-> 1 ]
    /\ last = Response("none", <<>>, "ok", 0)

Next ==
    \/ Inserted < MaxInserts /\ CreateCourse(CourseSeed)
    \/ \E id \in DOMAIN db["courses"] : DeleteCourse(id)
    \/ Inserted < MaxInserts /\ CreateEmailTemplate(EmailTemplateSeed)
    \/ \E id \in DOMAIN db["email_templates"], c \in RefIds("courses") :
          UpdateEmailTemplate(id, [ course_id |-> Some(c) ])
    \/ \E id \in DOMAIN db["email_templates"] : DeleteEmailTemplate(id)
    \/ Inserted < MaxInserts /\ \E raw \in ContentBlockSeeds :
          CreateContentBlock(raw)
    \/ \E id \in DOMAIN db["content_blocks"], raw \in ContentBlockMoves :
          UpdateContentBlock(id, raw)
    \/ \E id \in DOMAIN db["content_blocks"] : DeleteContentBlock(id)
    \/ Inserted < MaxInserts /\ \E raw \in AIGenerationSeeds :
          RecordAIGeneration(raw, CHOOSE o \in AIOutcomes : o.success)
    \/ \E id \in DOMAIN db["ai_generations"] : DeleteAIGeneration(id)
    \/ \E id \in DOMAIN db["content_blocks"], gen \in RefIds("ai_generations") :
          LinkAIGeneration(id, gen)

Spec == Init /\ [][Next]_vars

-----------------------------------------------------------------------------
(* The specification of creation: every entity, every Create input. *)

MaxCreates == 3

NextCreate ==
    \/ Inserted < MaxCreates /\ \E raw \in CourseCreateInputs : CreateCourse(raw)
    \/ Inserted < MaxCreates /\ \E raw \in EmailTemplateCreateInputs :
          CreateEmailTemplate(raw)
    \/ Inserted < MaxCreates /\ \E raw \in ContentBlockCreateInputs :
          CreateContentBlock(raw)
    \/ Inserted < MaxCreates /\ \E raw \in AIGenerationRequestInputs,
                                   outcome \in AIOutcomes :
          RecordAIGeneration(raw, outcome)
    \/ Inserted < MaxCreates /\ \E raw \in MediaAssetCreateInputs :
          CreateMediaAsset(raw)
    \/ Inserted < MaxCreates /\ \E raw \in LayoutPresetCreateInputs :
          CreateLayoutPreset(raw)

SpecCreate == Init /\ [][NextCreate]_vars

-----------------------------------------------------------------------------
(* The specification of update: the entities that have an Update schema,  *)
(* every Update input.                                                     *)

MaxRows == 2

NextUpdate ==
    \/ Inserted < MaxRows /\ CreateCourse(CourseSeed)
    \/ Inserted < MaxRows /\ \E raw \in { EmailTemplateSeed, EmailTemplateOffEnum } :
          CreateEmailTemplate(raw)
    \/ Inserted < MaxRows /\ \E raw \in ContentBlockSeeds \cup ContentBlockOffEnum :
          CreateContentBlock(raw)
    \/ \E id \in DOMAIN db["courses"], raw \in CourseUpdateInputs :
          UpdateCourse(id, raw)
    \/ \E id \in DOMAIN db["email_templates"], raw \in EmailTemplateUpdateInputs :
          UpdateEmailTemplate(id, raw)
    \/ \E id \in DOMAIN db["content_blocks"], raw \in ContentBlockUpdateInputs :
          UpdateContentBlock(id, raw)

SpecUpdate == Init /\ [][NextUpdate]_vars

-----------------------------------------------------------------------------
(* Properties of the store (Spec). *)

Templates == db["email_templates"]

Blocks == db["content_blocks"]

Generations == db["ai_generations"]

UpdateOps == { "UpdateCourse", "UpdateEmailTemplate", "UpdateContentBlock" }

CreateOps == DOMAIN Operations \ UpdateOps

BlockTemplatesExist ==
    \A b \in DOMAIN Blocks : Blocks[b].template_id \in DOMAIN Templates

(* C5: creating a ContentBlock from an otherwise valid input whose         *)
(* template_id references no stored EmailTemplate fails with               *)
(* IntegrityError (not ValidationError) and leaves the store as it was;    *)
(* and after every step every stored ContentBlock's template_id            *)
(* references a stored EmailTemplate.                                      *)
C5_BlockTemplateExists ==
    [][ /\ ( /\ last'.op = "CreateContentBlock"
             /\ last'.result # "ValidationError"
             /\ last'.input.template_id \notin DOMAIN Templates )
           => /\ last'.result = "IntegrityError"
              /\ UNCHANGED <<db, seq>>
        /\ BlockTemplatesExist' ]_vars

C5_Witness ==
    /\ last.op = "CreateContentBlock"
    /\ last.result = "IntegrityError"
    /\ last.input.template_id \notin DOMAIN Templates
    /\ DOMAIN Blocks # {}

(* C6: in every reachable state a ContentBlock whose ai_generation_id is   *)
(* set references a stored AIGeneration whose template_id equals the       *)
(* block's own template_id.                                                *)
C6_LinkedGenerationOfSameTemplate ==
    \A b \in DOMAIN Blocks :
        Blocks[b].ai_generation_id # None =>
            LET g == Blocks[b].ai_generation_id[1]
            IN  /\ g \in DOMAIN Generations
                /\ Generations[g].template_id = Blocks[b].template_id

(* The part of C6 the foreign key does enforce: a set ai_generation_id     *)
(* references a stored AIGeneration, also after deletes.                   *)
LinkedGenerationExists ==
    \A b \in DOMAIN Blocks :
        Blocks[b].ai_generation_id # None =>
            Blocks[b].ai_generation_id[1] \in DOMAIN Generations

(* C1: deleting an EmailTemplate removes, in the same step, the template   *)
(* and every ContentBlock and AIGeneration whose template_id is its id,    *)
(* and leaves the children of every other template as they were.           *)
C1_TemplateDeleteTakesOnlyItsChildren ==
    [][ last'.op = "DeleteEmailTemplate" =>
          LET t == last'.id
          IN  /\ t \in DOMAIN Templates
              /\ t \notin DOMAIN Templates'
              /\ \A tbl \in { "content_blocks", "ai_generations" } :
                    /\ \A i \in DOMAIN db'[tbl] : db'[tbl][i].template_id # t
                    /\ \A i \in DOMAIN db[tbl] :
                          db[tbl][i].template_id # t =>
                              /\ i \in DOMAIN db'[tbl]
                              /\ db'[tbl][i] = db[tbl][i] ]_vars

(* The part of C1 the cascade does deliver: the template and all of its    *)
(* children are gone after the step, and no child of another template is   *)
(* removed.                                                                *)
TemplateDeleteCascades ==
    [][ last'.op = "DeleteEmailTemplate" =>
          LET t == last'.id
          IN  /\ t \notin DOMAIN Templates'
              /\ \A tbl \in { "content_blocks", "ai_generations" } :
                    /\ \A i \in DOMAIN db'[tbl] : db'[tbl][i].template_id # t
                    /\ \A i \in DOMAIN db[tbl] :
                          db[tbl][i].template_id # t => i \in DOMAIN db'[tbl] ]_vars

(* C10: no Update changes a ContentBlock's template_id, ai_generated or    *)
(* ai_generation_id, whatever keys the input carries; the block stays in   *)
(* the store, under the template it was created under.                     *)
C10_UpdateKeepsBlockParentAndOrigin ==
    [][ last'.op \in UpdateOps =>
          \A b \in DOMAIN Blocks :
              /\ b \in DOMAIN Blocks'
              /\ \A c \in { "template_id", "ai_generated", "ai_generation_id" } :
                    Blocks'[b][c] = Blocks[b][c] ]_vars

C10_Witness ==
    /\ last.op = "UpdateContentBlock"
    /\ last.result = "ok"
    /\ last.input.template_id[1] \in DOMAIN Templates
    /\ last.input.template_id[1] # Blocks[last.id].template_id
    /\ last.input.ai_generation_id = None
    /\ Blocks[last.id].ai_generation_id # None
    /\ Blocks[last.id].order_index = 2

-----------------------------------------------------------------------------
(* Properties of creation (SpecCreate). *)

Row == db[Operations[last.op].table][last.id]

(* C3: a Create whose input carries a string longer than the column's      *)
(* maximum length (Course.name > 200, EmailTemplate.description > 500,     *)
(* MediaAsset.file_path > 500, ...) fails with ValidationError and leaves  *)
(* the stored records exactly as they were: nothing is stored, truncated   *)
(* or not.                                                                 *)
OverLength(op, raw) ==
    LET table == Tables[Operations[op].table]
    IN  \E f \in DOMAIN raw \cap DOMAIN Operations[op].schema \cap DOMAIN table :
            table[f].type = "str" /\ Len(raw[f]) > table[f].max

OverLengthExample(op, raw) ==
    \/ op = "CreateCourse" /\ "name" \in DOMAIN raw /\ Len(raw.name) > 200
    \/ /\ op = "CreateEmailTemplate" /\ "description" \in DOMAIN raw
       /\ Len(raw.description) > 500
    \/ /\ op = "CreateMediaAsset" /\ "file_path" \in DOMAIN raw
       /\ Len(raw.file_path) > 500

C3_OverLengthCreateRejected ==
    [][ ( /\ last'.op \in CreateOps
          /\ ( \/ OverLength(last'.op, last'.input)
               \/ OverLengthExample(last'.op, last'.input) ) )
        => /\ last'.result = "ValidationError"
           /\ UNCHANGED <<db, seq>> ]_vars

C3_Witness ==
    /\ last.op = "CreateMediaAsset"
    /\ Len(last.input.file_path) = 501
    /\ last.result = "ValidationError"
    /\ \E a \in DOMAIN db["media_assets"] : Len(db["media_assets"][a].file_path) = 500

(* C7: creating an EmailTemplate from name, subject_line and a valid       *)
(* template_type alone succeeds; every created template is stored with     *)
(* status draft, whatever the input carries, with layout_config the empty  *)
(* object when the input gives none and course_id unset when the input     *)
(* gives none.                                                             *)
C7_NewTemplateIsDraft ==
    last.op = "CreateEmailTemplate" =>
        /\ ( /\ DOMAIN last.input = { "name", "subject_line", "template_type" }
             /\ Len(last.input.name) <= 200
             /\ Len(last.input.subject_line) <= 200
             /\ last.input.template_type \in TemplateType )
           => last.result = "ok"
        /\ last.result = "ok" =>
              /\ Row.status = "draft"
              /\ "layout_config" \notin DOMAIN last.input => Row.layout_config = {}
              /\ "course_id" \notin DOMAIN last.input => Row.course_id = None

C7_Witness ==
    /\ last.op = "CreateEmailTemplate"
    /\ last.input = [ name |-> "Reminder", subject_line |-> "Reminder",
                      template_type |-> "course_reminder" ]
    /\ last.result = "ok"
    /\ Row.status = "draft"

(* C8, as stated: a created record, read back, has every field of the      *)
(* Create input, equal to the input's value or to the field's default.     *)
C8_ReadBackHasEveryInputField ==
    (last.op \in CreateOps /\ last.result = "ok") =>
        LET schema == Operations[last.op].schema
        IN  \A f \in DOMAIN schema :
                /\ f \in DOMAIN Row
                /\ Row[f] = IF f \in DOMAIN last.input THEN last.input[f]
                            ELSE schema[f].default

(* C8, amended: a created record, read back, equals the Create input on    *)
(* every field of the input that is a column of the entity, the omitted    *)
(* ones at their defaults (AIGeneration.temperature 0.7,                   *)
(* ContentBlock.order_index 0, block_type text); its id is the one the     *)
(* store assigned, its timestamps the server's, and no other column is     *)
(* taken from the input.                                                   *)
ExpectedDefault(op, f) ==
    LET col == Tables[Operations[op].table][f]
    IN  IF col.required THEN Operations[op].schema[f].default ELSE col.default

ServiceColumns == { "generated_content", "success", "error_message" }

C8_ReadBackEqualsInputOnColumns ==
    (last.op \in CreateOps /\ last.result = "ok") =>
        LET schema == Operations[last.op].schema
            table == Tables[Operations[last.op].table]
        IN  /\ \A f \in DOMAIN schema \cap DOMAIN table :
                  Row[f] = IF f \in DOMAIN last.input THEN last.input[f]
                           ELSE ExpectedDefault(last.op, f)
            /\ Row.id = last.id
            /\ Row.created_at = UtcNow
            /\ \A c \in DOMAIN table \ (DOMAIN schema \cup ServiceColumns \cup {"id"}) :
                  Row[c] = table[c].default
            /\ (last.op = "RecordAIGeneration" /\ "temperature" \notin DOMAIN last.input)
                  => Row.temperature = Decimal(7, -1)
            /\ (last.op = "CreateContentBlock" /\ "order_index" \notin DOMAIN last.input)
                  => Row.order_index = 0
            /\ (last.op = "CreateContentBlock" /\ "block_type" \notin DOMAIN last.input)
                  => Row.block_type = "text"

C8_Witness ==
    /\ last.op = "RecordAIGeneration"
    /\ last.result = "ok"
    /\ "temperature" \notin DOMAIN last.input
    /\ Row.temperature = Decimal(7, -1)
    /\ \E b \in DOMAIN Blocks : Blocks[b].order_index = 0 /\ Blocks[b].block_type = "text"

-----------------------------------------------------------------------------
(* Properties of update (SpecUpdate). *)

(* C2: after an Update of a Course, an EmailTemplate or a ContentBlock,    *)
(* whether it succeeds or fails, every column of the record that the       *)
(* input does not carry holds the value it held before; none is reset to   *)
(* its default or to null (course_id, start_date, end_date included).      *)
C2_OmittedFieldsKept ==
    [][ last'.op \in UpdateOps =>
          LET t == Operations[last'.op].table
              id == last'.id
          IN  /\ id \in DOMAIN db[t] /\ id \in DOMAIN db'[t]
              /\ \A c \in DOMAIN db[t][id] \ DOMAIN last'.input :
                    db'[t][id][c] = db[t][id][c] ]_vars

C2_Witness ==
    /\ last.op = "UpdateEmailTemplate"
    /\ last.result = "ok"
    /\ last.input = [ status |-> Some("published") ]
    /\ Row.status = "published"
    /\ Row.course_id # None
    /\ Row.layout_config = DocA
    /\ \E c \in DOMAIN db["courses"] : db["courses"][c].start_date # None

(* C4: a Create or Update whose input carries, in an enum field its        *)
(* schema declares (template_type, status, block_type), a value outside    *)
(* the enum fails with ValidationError and leaves the store as it was;     *)
(* and after every step every stored enum column holds a member of its     *)
(* enum.                                                                   *)
EnumType(col) ==
    IF col.type = "optional" THEN col.of.type = "enum" ELSE col.type = "enum"

Members(col) == IF col.type = "optional" THEN col.of.members ELSE col.members

OffEnum(op, raw) ==
    LET table == Tables[Operations[op].table]
        schema == Operations[op].schema
    IN  \E f \in DOMAIN raw \cap DOMAIN schema \cap DOMAIN table :
            /\ EnumType(table[f])
            /\ LET v == Ref(schema[f], raw[f])
               IN  v # None /\ v[1] \notin Members(table[f])

StoredEnumsOK ==
    \A t \in TableNames : \A id \in DOMAIN db[t] : \A c \in DOMAIN Tables[t] :
        EnumType(Tables[t][c]) =>
            LET v == Ref(Tables[t][c], db[t][id][c])
            IN  v = None \/ v[1] \in Members(Tables[t][c])

C4_OffEnumRejected ==
    [][ /\ (last'.op \in DOMAIN Operations /\ OffEnum(last'.op, last'.input))
           => /\ last'.result = "ValidationError"
              /\ UNCHANGED <<db, seq>>
        /\ StoredEnumsOK' ]_vars

C4_Witness ==
    /\ last.op = "UpdateEmailTemplate"
    /\ last.input = [ status |-> Some("sent") ]
    /\ last.result = "ValidationError"
    /\ Row.status = "published"

(* C9: a successful Update that carries a document for a JSON column       *)
(* (layout_config, content, style_config) stores exactly that document:    *)
(* no key of the document stored before survives unless the new document   *)
(* has it.                                                                 *)
JsonColumns == { "layout_config", "content", "style_config" }

C9_JsonReplacedWholesale ==
    [][ (last'.op \in UpdateOps /\ last'.result = "ok") =>
          LET t == Operations[last'.op].table
              schema == Operations[last'.op].schema
          IN  \A f \in JsonColumns \cap DOMAIN last'.input \cap DOMAIN schema :
                  last'.input[f] # None =>
                      /\ db'[t][last'.id][f] = last'.input[f][1]
                      /\ Keys(db'[t][last'.id][f]) = Keys(last'.input[f][1]) ]_vars

C9_Witness ==
    /\ last.op = "UpdateContentBlock"
    /\ last.result = "ok"
    /\ last.input = [ content |-> Some(DocB) ]
    /\ Row.content = DocB
    /\ Row.style_config = DocA

=============================================================================
